---- MODULE Spec2Model ----
(***************************************************************************)
(* Model of the fixed-stride point codec of dkdtree (point.go):            *)
(* pointSize, Point.equal, Point.distanceSquared, Point.serialize,         *)
(* parsePointHeader, parsePoint and parsePointFromReader.                  *)
(*                                                                         *)
(* Bytes are 0..255.  A float64 is its IEEE-754 fields, written as 8       *)
(* little-endian bytes.  A uint32 is UintBits wide here (32 in the         *)
(* program): every uint32 conversion, product and sum wraps at UintMod.    *)
(* An int is 64 bits in the program and never wraps at the sizes used, so  *)
(* it is an unbounded integer here.  A Go slice is its backing array from  *)
(* its first element on (arr, whose length is the capacity) and its length *)
(* (len); slicing panics exactly where the Go runtime does.                *)
(***************************************************************************)
EXTENDS Integers, Sequences, FiniteSets, TLC

\* ------------------------------------------------------------------ bounds
\* width of the uint32 type in the model
UintBits == 8
\* records written to one writer
MaxRecords == 2
\* extra capacity a truncated buffer may have behind its length
MaxSlack == 2

\* --------------------------------------------------------------- constants
float64Size == 8
uint32Size == 4
uint64Size == 8

RECURSIVE Pow2(_)
Pow2(n) == IF n = 0 THEN 1 ELSE 2 * Pow2(n - 1)

UintMod == Pow2(UintBits)

\* uint32(x) for an int x >= 0
Uint32(x) == x % UintMod

headerLen == 1 + 3 * uint32Size

pointSize(dims, maxDataLen) ==
    1 + uint32Size * 3 + dims * float64Size + maxDataLen

\* ------------------------------------------------------------------ floats
\* IEEE-754 binary64: sign (1 bit), exp (11 bits), fraction (52 bits) kept
\* as hi (20 bits), mid (16 bits), lo (16 bits).
F64(s, e, h, m, l) == [sign |-> s, exp |-> e, hi |-> h, mid |-> m, lo |-> l]

PosZero == F64(0, 0, 0, 0, 0)
NegZero == F64(1, 0, 0, 0, 0)
One == F64(0, 1023, 0, 0, 0)
Two == F64(0, 1024, 0, 0, 0)
NegThree == F64(1, 1024, 524288, 0, 0)
NaN == F64(0, 2047, 524288, 0, 1)

IsNaN(f) == f.exp = 2047 /\ (f.hi # 0 \/ f.mid # 0 \/ f.lo # 0)
IsZero(f) == f.exp = 0 /\ f.hi = 0 /\ f.mid = 0 /\ f.lo = 0

\* the Go operator != on two float64 values
FloatNe(a, b) ==
    \/ IsNaN(a)
    \/ IsNaN(b)
    \/ ~(a = b \/ (IsZero(a) /\ IsZero(b)))

\* the numeric value of a float64 that holds a small integer
FloatVal(f) ==
    IF IsZero(f) THEN 0
    ELSE LET k == f.exp - 1023
             mag == Pow2(k) + (f.hi * Pow2(k)) \div 1048576
         IN IF f.sign = 1 THEN 0 - mag ELSE mag

\* binary.LittleEndian.PutUint64(math.Float64bits(f))
PutFloat64(f) ==
    << f.lo % 256, f.lo \div 256, f.mid % 256, f.mid \div 256,
       f.hi % 256, (f.hi \div 256) % 256,
       (f.hi \div 65536) + 16 * (f.exp % 16),
       (f.exp \div 16) + 128 * f.sign >>

\* math.Float64frombits(binary.LittleEndian.Uint64(b)) for 8 bytes b
Float64frombytes(b) ==
    F64(b[8] \div 128,
        (b[8] % 128) * 16 + b[7] \div 16,
        (b[7] % 16) * 65536 + b[6] * 256 + b[5],
        b[4] * 256 + b[3],
        b[2] * 256 + b[1])

\* ------------------------------------------------------------------ uint32
\* binary.Write(w, binary.LittleEndian, v) for a uint32 v
PutUint32(v) ==
    << v % 256, (v \div 256) % 256, (v \div 65536) % 256,
       (v \div 16777216) % 256 >>

\* binary.LittleEndian.Uint32(b) on the first 4 bytes of b
LittleEndianUint32(b) ==
    (b[1] + (256 % UintMod) * b[2] + (65536 % UintMod) * b[3]
       + (16777216 % UintMod) * b[4]) % UintMod

\* ------------------------------------------------------------------ slices
RECURSIVE Zeros(_)
Zeros(n) == IF n <= 0 THEN << >> ELSE Append(Zeros(n - 1), 0)

RECURSIVE Concat(_)
Concat(ss) == IF ss = << >> THEN << >> ELSE Head(ss) \o Concat(Tail(ss))

\* a slice whose capacity is its length
MkSlice(bytes) == [arr |-> bytes, len |-> Len(bytes)]
NilSlice == [arr |-> << >>, len |-> 0]
Cap(s) == Len(s.arr)
Bytes(s) == SubSeq(s.arr, 1, s.len)

\* s[low:] is legal iff low <= len(s); s[:high] is legal iff high <= cap(s)
SliceFromOK(s, low) == low <= s.len
SliceFrom(s, low) ==
    [arr |-> SubSeq(s.arr, low + 1, Len(s.arr)), len |-> s.len - low]
SliceToOK(s, high) == high <= Cap(s)
SliceTo(s, high) == [arr |-> s.arr, len |-> high]

\* ------------------------------------------------------------------- Point
Point(pos, data) == [Pos |-> pos, Data |-> data]
ZeroPoint == Point(<< >>, << >>)

equal(p1, p2) ==
    IF Len(p1.Pos) # Len(p2.Pos) \/ Len(p1.Data) # Len(p2.Data)
    THEN FALSE
    ELSE IF \E i \in 1..Len(p1.Pos) : FloatNe(p2.Pos[i], p1.Pos[i])
    THEN FALSE
    ELSE p1.Data = p2.Data

\* the float64 sum is a NaN flag and, the coordinates being small integers,
\* an exact integer value
RECURSIVE SumSquares(_, _, _)
SumSquares(pos1, pos2, i) ==
    IF i = 0 THEN [nan |-> FALSE, val |-> 0]
    ELSE LET prev == SumSquares(pos1, pos2, i - 1)
             v == pos1[i]
             u == pos2[i]
         IN IF prev.nan \/ IsNaN(v) \/ IsNaN(u)
            THEN [nan |-> TRUE, val |-> 0]
            ELSE LET delta == FloatVal(v) - FloatVal(u)
                 IN [nan |-> FALSE, val |-> prev.val + delta * delta]

\* p2.Pos[i] panics (index out of range) once i reaches len(p2.Pos)
distanceSquared(p1, p2) ==
    IF Len(p1.Pos) > Len(p2.Pos)
    THEN [panic |-> TRUE, sum |-> [nan |-> FALSE, val |-> 0]]
    ELSE [panic |-> FALSE, sum |-> SumSquares(p1.Pos, p2.Pos, Len(p1.Pos))]

\* ---------------------------------------------------------------- encoder
\* binary.Write(w, binary.LittleEndian, p.Pos)
RECURSIVE PutFloats(_)
PutFloats(pos) ==
    IF pos = << >> THEN << >> ELSE PutFloat64(Head(pos)) \o PutFloats(Tail(pos))

\* the argument of each of the seven Write calls, in order
serializeWrites(p, maxDataLen) ==
    LET posLen == Uint32(Len(p.Pos))
        dataLen == Uint32(Len(p.Data))
        paddingLen == Uint32(maxDataLen - Len(p.Data))
    IN << << 0 >>, PutUint32(posLen), PutUint32(dataLen),
          PutUint32(paddingLen), PutFloats(p.Pos), p.Data,
          Zeros(paddingLen) >>

\* the length check, off by one
serializeGuardOffByOne(p, maxDataLen) == Len(p.Data) > maxDataLen + 1

\* the check before the first write
serializeGuard(p, maxDataLen) == Len(p.Data) > maxDataLen

\* The writer rejects its failAt-th Write call of this serialize (0: none)
\* and takes nothing of it.  written is what the writer received.

serialize(p, maxDataLen, failAt) ==
    IF serializeGuard(p, maxDataLen)
    THEN [err |-> "DataTooLong", written |-> << >>]
    ELSE LET ws == serializeWrites(p, maxDataLen)
         IN IF failAt = 0
            THEN [err |-> "nil", written |-> Concat(ws)]
            ELSE [err |-> "WriteFailed",
                  written |-> Concat(SubSeq(ws, 1, failAt - 1))]

\* --------------------------------------------------------------- decoders
\* readFloats (not in point.go): len(buf)/float64Size little-endian float64
RECURSIVE readFloats(_)
readFloats(bytes) ==
    IF Len(bytes) < float64Size THEN << >>
    ELSE << Float64frombytes(SubSeq(bytes, 1, float64Size)) >>
           \o readFloats(SubSeq(bytes, float64Size + 1, Len(bytes)))

HeaderResult(panic, err, dims, datalen, padlen, remaining) ==
    [panic |-> panic, err |-> err, dims |-> dims, datalen |-> datalen,
     padlen |-> padlen, remaining |-> remaining]

\* the version check, taking version 1 as well
versionOKUpToOne(b) == b <= 1

versionOK(b) == b = 0

\* buf[0] panics on an empty slice; Uint32 and buf[uint32Size:] panic on a
\* slice shorter than uint32Size
parsePointHeader(buf) ==
    IF buf.len = 0 THEN HeaderResult(TRUE, "nil", 0, 0, 0, NilSlice)
    ELSE IF ~versionOK(buf.arr[1])
    THEN HeaderResult(FALSE, "InvalidVersion", 0, 0, 0, NilSlice)
    ELSE IF buf.len < headerLen
    THEN HeaderResult(TRUE, "nil", 0, 0, 0, NilSlice)
    ELSE LET b1 == SliceFrom(buf, 1)
             b2 == SliceFrom(b1, uint32Size)
             b3 == SliceFrom(b2, uint32Size)
         IN HeaderResult(FALSE, "nil", LittleEndianUint32(b1.arr),
                         LittleEndianUint32(b2.arr),
                         LittleEndianUint32(b3.arr),
                         SliceFrom(b3, uint32Size))

PointResult(panic, err, rv, remaining) ==
    [panic |-> panic, err |-> err, rv |-> rv, remaining |-> remaining]

posBytesOf(dims) == Uint32(dims * float64Size)

parsePoint(buf) ==
    LET h == parsePointHeader(buf)
    IN IF h.panic THEN PointResult(TRUE, "nil", ZeroPoint, NilSlice)
       ELSE IF h.err # "nil" THEN PointResult(FALSE, h.err, ZeroPoint, NilSlice)
       ELSE LET posBytes == posBytesOf(h.dims)
                body == h.remaining
            IN IF ~SliceToOK(body, posBytes) \/ ~SliceFromOK(body, posBytes)
               THEN PointResult(TRUE, "nil", ZeroPoint, NilSlice)
               ELSE LET pos == readFloats(Bytes(SliceTo(body, posBytes)))
                        body2 == SliceFrom(body, posBytes)
                        skip == Uint32(h.datalen + h.padlen)
                    IN IF ~SliceToOK(body2, h.datalen)
                          \/ ~SliceFromOK(body2, skip)
                       THEN PointResult(TRUE, "nil", ZeroPoint, NilSlice)
                       ELSE PointResult(FALSE, "nil",
                                Point(pos, Bytes(SliceTo(body2, h.datalen))),
                                SliceFrom(body2, skip))

\* io.ReadFull(r, b) on a reader holding avail more bytes, len(b) = want
ReadFullErr(avail, want) ==
    IF want = 0 \/ avail >= want THEN "nil"
    ELSE IF avail = 0 THEN "EOF"
    ELSE "ErrUnexpectedEOF"
ReadFullN(avail, want) == IF avail >= want THEN want ELSE avail

\* consumed: bytes taken from the reader; rest: the remainder parsePoint
\* returned, which parsePointFromReader drops
ReaderResult(panic, err, rv, maxDataLen, consumed, rest) ==
    [panic |-> panic, err |-> err, rv |-> rv, maxDataLen |-> maxDataLen,
     consumed |-> consumed, rest |-> rest]

\* the length of the buffer read after the header
bodyLenOf(dims, datalen, padlen) ==
    dims * float64Size + Uint32(datalen + padlen)

\* stream: the bytes the reader still holds
parsePointFromReader(stream) ==
    LET avail == Len(stream)
        herr == ReadFullErr(avail, headerLen)
    IN IF herr # "nil"
       THEN ReaderResult(FALSE, herr, ZeroPoint, 0,
                         ReadFullN(avail, headerLen), << >>)
       ELSE LET header == SubSeq(stream, 1, headerLen)
                h == parsePointHeader(MkSlice(header))
            IN IF h.err # "nil"
               THEN ReaderResult(FALSE, h.err, ZeroPoint, 0, headerLen, << >>)
               ELSE LET want == bodyLenOf(h.dims, h.datalen, h.padlen)
                        berr == ReadFullErr(avail - headerLen, want)
                        got == ReadFullN(avail - headerLen, want)
                    IN IF berr # "nil"
                       THEN ReaderResult(FALSE, berr, ZeroPoint, 0,
                                         headerLen + got, << >>)
                       ELSE LET data == SubSeq(stream, 1, headerLen + want)
                                r == parsePoint(MkSlice(data))
                            IN ReaderResult(r.panic, r.err, r.rv,
                                   Uint32(h.datalen + h.padlen),
                                   headerLen + want, Bytes(r.remaining))

\* ------------------------------------------------------------ state machine
VARIABLES
    w,        \* the bytes the writer has received
    recs,     \* the serialize calls that returned nil, in order
    broken,   \* a Write call of the writer has failed
    rem,      \* the part of w that parsePoint has not consumed yet
    decoded,  \* the points parsePoint returned from w, in order
    last      \* the last call: its arguments and what it returned

vars == << w, recs, broken, rem, decoded, last >>

NoCall ==
    [op |-> "none", p |-> ZeroPoint, p2 |-> ZeroPoint, maxDataLen |-> 0,
     failAt |-> 0, buf |-> NilSlice, before |-> << >>, n |-> 0,
     err |-> "nil", panic |-> FALSE, rv |-> ZeroPoint, remaining |-> << >>,
     dims |-> 0, datalen |-> 0, padlen |-> 0, out |-> 0,
     sum |-> [nan |-> FALSE, val |-> 0]]

\* the points and maximum payload lengths the callers pass
Points == { Point(<< >>, << >>), Point(<< One, NegThree >>, << 170, 187 >>),
            Point(<< NaN >>, << 7 >>) }
MaxDataLens == { 0, 2, UintMod + 2 }
WriteCalls == 7

Init ==
    /\ w = << >>
    /\ recs = << >>
    /\ broken = FALSE
    /\ rem = << >>
    /\ decoded = << >>
    /\ last = NoCall

\* p.serialize(w, maxDataLen) on the writer
Serialize(p, maxDataLen, failAt) ==
    /\ ~broken
    /\ decoded = << >>
    /\ Len(recs) < MaxRecords
    /\ LET r == serialize(p, maxDataLen, failAt)
       IN /\ w' = w \o r.written
          /\ rem' = w \o r.written
          /\ recs' = IF r.err = "nil"
                     THEN Append(recs, [p |-> p, maxDataLen |-> maxDataLen,
                                        n |-> Len(r.written)])
                     ELSE recs
          /\ broken' = (r.err = "WriteFailed")
          /\ last' = [NoCall EXCEPT !.op = "serialize", !.p = p,
                         !.maxDataLen = maxDataLen, !.failAt = failAt,
                         !.before = w, !.n = Len(r.written), !.err = r.err]
    /\ UNCHANGED decoded

\* parsePoint on exactly the bytes the last serialize call wrote
ParseWritten ==
    /\ last.op = "serialize"
    /\ last.err = "nil"
    /\ LET buf == MkSlice(SubSeq(w, Len(last.before) + 1, Len(w)))
           r == parsePoint(buf)
       IN last' = [NoCall EXCEPT !.op = "parseWritten", !.p = last.p,
                      !.maxDataLen = last.maxDataLen, !.buf = buf,
                      !.err = r.err, !.panic = r.panic, !.rv = r.rv,
                      !.remaining = Bytes(r.remaining)]
    /\ UNCHANGED << w, recs, broken, rem, decoded >>

\* parsePoint on the remainder the previous parsePoint returned (on all of
\* w the first time)
ParseNext ==
    /\ ~broken
    /\ Len(decoded) < Len(recs)
    /\ last.op = "parseNext" => (~last.panic /\ last.err = "nil")
    /\ LET buf == MkSlice(rem)
           h == parsePointHeader(buf)
           r == parsePoint(buf)
           ok == ~r.panic /\ r.err = "nil"
       IN /\ rem' = IF ok THEN Bytes(r.remaining) ELSE rem
          /\ decoded' = IF ok THEN Append(decoded, r.rv) ELSE decoded
          /\ last' = [NoCall EXCEPT !.op = "parseNext", !.buf = buf,
                         !.err = r.err, !.panic = r.panic, !.rv = r.rv,
                         !.remaining = Bytes(r.remaining),
                         !.dims = h.dims, !.datalen = h.datalen,
                         !.padlen = h.padlen,
                         !.n = IF ok THEN Len(rem) - r.remaining.len ELSE 0]
    /\ UNCHANGED << w, recs, broken >>

\* parsePointFromReader on a fresh reader that holds the first k bytes of w
ReadRecord(k) ==
    /\ ~broken
    /\ last.op \in { "none", "serialize" }
    /\ LET stream == SubSeq(w, 1, k)
           r == parsePointFromReader(stream)
       IN last' = [NoCall EXCEPT !.op = "parsePointFromReader",
                      !.buf = MkSlice(stream), !.err = r.err,
                      !.panic = r.panic, !.rv = r.rv, !.out = r.maxDataLen,
                      !.n = r.consumed, !.remaining = r.rest]
    /\ UNCHANGED << w, recs, broken, rem, decoded >>

Next ==
    \/ \E p \in Points, m \in MaxDataLens, f \in 0..WriteCalls :
          Serialize(p, m, f)
    \/ ParseWritten
    \/ ParseNext
    \/ \E k \in 0..Len(w) : ReadRecord(k)

Spec == Init /\ [][Next]_vars

\* ------------------------------------------- calls on buffers from storage
\* A stored record: a header and a body of bodyLen bytes, each fill.
Stored(version, dims, datalen, padlen, bodyLen, fill) ==
    << version >> \o PutUint32(dims) \o PutUint32(datalen)
       \o PutUint32(padlen) \o [i \in 1..bodyLen |-> fill]

SmallLens == 0..2
\* header fields at and around the points where dims*8 and datalen+padlen
\* leave the uint32 range
WideLens == { 0, 1, UintMod \div float64Size, UintMod \div float64Size + 1,
              UintMod - 1 }
Versions == { 0, 1, 255 }
Fills == { 0, 170 }

\* records whose body has exactly the length the header states
SmallRecords ==
    { Stored(v, d, n, pd, d * float64Size + n + pd, f) :
        v \in Versions, d \in SmallLens, n \in SmallLens, pd \in 0..1,
        f \in Fills }

\* a buffer cut to l bytes whose backing array holds s more bytes
Truncations(rec) ==
    UNION { { [arr |-> SubSeq(rec, 1, c), len |-> l] :
                c \in { x \in l..(l + MaxSlack) : x <= Len(rec) } } :
            l \in 0..Len(rec) }

Buffers == UNION { Truncations(rec) : rec \in SmallRecords }

\* streams that hold every byte parsePointFromReader asks for
WideStreams ==
    { Stored(0, d, n, pd, bodyLenOf(d, n, pd), 0) :
        d \in WideLens, n \in WideLens, pd \in WideLens }

CoordLists ==
    { << >>, << One >>, << NegThree >>, << One, Two >>, << Two, NegThree >>,
      << NaN >>, << PosZero, NegZero >>, << One, Two, NegThree >>,
      << NegZero >>, << Two, Two, Two >> }

\* every call is made on its own, from the initial state
Fresh == last.op = "none"

CallParsePointHeader(buf) ==
    /\ Fresh
    /\ LET h == parsePointHeader(buf)
       IN last' = [NoCall EXCEPT !.op = "parsePointHeader", !.buf = buf,
                      !.err = h.err, !.panic = h.panic, !.dims = h.dims,
                      !.datalen = h.datalen, !.padlen = h.padlen,
                      !.remaining = Bytes(h.remaining)]
    /\ UNCHANGED << w, recs, broken, rem, decoded >>

CallParsePoint(buf) ==
    /\ Fresh
    /\ LET r == parsePoint(buf)
       IN last' = [NoCall EXCEPT !.op = "parsePoint", !.buf = buf,
                      !.err = r.err, !.panic = r.panic, !.rv = r.rv,
                      !.remaining = Bytes(r.remaining)]
    /\ UNCHANGED << w, recs, broken, rem, decoded >>

CallParsePointFromReader(stream) ==
    /\ Fresh
    /\ LET r == parsePointFromReader(stream)
       IN last' = [NoCall EXCEPT !.op = "parsePointFromReader",
                      !.buf = MkSlice(stream), !.err = r.err,
                      !.panic = r.panic, !.rv = r.rv, !.out = r.maxDataLen,
                      !.n = r.consumed, !.remaining = r.rest]
    /\ UNCHANGED << w, recs, broken, rem, decoded >>

CallDistanceSquared(p1, p2) ==
    /\ Fresh
    /\ LET r == distanceSquared(p1, p2)
       IN last' = [NoCall EXCEPT !.op = "distanceSquared", !.p = p1,
                      !.p2 = p2, !.panic = r.panic, !.sum = r.sum]
    /\ UNCHANGED << w, recs, broken, rem, decoded >>

NextPure ==
    \/ Fresh /\ \E buf \in Buffers : CallParsePointHeader(buf)
    \/ Fresh /\ \E buf \in Buffers : CallParsePoint(buf)
    \/ Fresh /\ \E buf \in Buffers : CallParsePointFromReader(Bytes(buf))
    \/ Fresh /\ \E s \in WideStreams : CallParsePointFromReader(s)
    \/ Fresh /\ \E a \in CoordLists, b \in CoordLists :
                   CallDistanceSquared(Point(a, << >>), Point(b, << >>))

SpecPure == Init /\ [][NextPure]_vars

\* ------------------------------------------------------------------ claims
\* C1 (round trip): parsePoint on exactly the bytes serialize(p, maxDataLen)
\* wrote returns, without error, a point q with equal(p, q).
C1_RoundTrip ==
    last.op = "parseWritten" =>
        (~last.panic /\ last.err = "nil" /\ equal(last.p, last.rv))

\* C2 (constant stride): every serialize that returns nil has written
\* exactly pointSize(len(p.Pos), maxDataLen) bytes.
C2_ConstantStride ==
    (last.op = "serialize" /\ last.err = "nil") =>
        last.n = pointSize(Len(last.p.Pos), last.maxDataLen)

\* C3 (overflow guard): serialize of a point whose payload is longer than
\* maxDataLen returns the payload-too-large error and the writer has
\* received nothing: its contents are what they were before the call.
C3_OverflowGuard ==
    (last.op = "serialize" /\ Len(last.p.Data) > last.maxDataLen) =>
        (last.err = "DataTooLong" /\ last.n = 0 /\ w = last.before)

C3_Witness ==
    /\ last.op = "serialize"
    /\ Len(last.p.Data) > last.maxDataLen
    /\ last.err = "DataTooLong"
    /\ last.before # << >>
    /\ w = last.before

\* the length a version-0 buffer's own header implies
ImpliedLen(buf) ==
    LET f(i) == LittleEndianUint32(SubSeq(buf.arr, i, i + uint32Size - 1))
    IN headerLen + f(2) * float64Size + f(2 + uint32Size)
          + f(2 + 2 * uint32Size)

ShortBuffer(buf) ==
    \/ buf.len = 0
    \/ buf.arr[1] = 0 /\ buf.len < headerLen
    \/ buf.arr[1] = 0 /\ buf.len >= headerLen /\ buf.len < ImpliedLen(buf)

\* C4 (truncation guard): parsePoint on a buffer shorter than its header,
\* or shorter than the length its header implies, returns a truncated-record
\* error and does not fault.
C4_TruncationGuard ==
    (last.op = "parsePoint" /\ ShortBuffer(last.buf)) =>
        (~last.panic /\ last.err = "TruncatedRecord")

\* C5 (sequential decode): parsePoint applied to the concatenation of the
\* records written and then to each remainder returns the points written,
\* in order, each equal to its source; each application consumes
\* 13 + dims*8 + dataLen + padLen bytes; after the last one nothing remains.
C5_SequentialDecode ==
    /\ \A i \in 1..Len(decoded) : equal(recs[i].p, decoded[i])
    /\ last.op = "parseNext" =>
          /\ ~last.panic
          /\ last.err = "nil"
          /\ last.n = headerLen + last.dims * float64Size + last.datalen
                         + last.padlen
    /\ (~broken /\ Len(decoded) = Len(recs)) => rem = << >>

\* C6 (clean end of input): parsePointFromReader returns the clean
\* end-of-input error only when the reader held no byte at all.
C6_CleanEndOfInput ==
    (last.op = "parsePointFromReader" /\ last.err = "EOF") =>
        (last.buf.len = 0 /\ last.n = 0)

\* C7 (stream decode): reading a whole record serialize(p, maxDataLen)
\* wrote returns a point equal to p and maxDataLen, and takes exactly
\* pointSize(len(p.Pos), maxDataLen) bytes from the reader.
C7_StreamDecode ==
    (last.op = "parsePointFromReader" /\ recs # << >>
        /\ last.buf.len >= recs[1].n) =>
        /\ ~last.panic
        /\ last.err = "nil"
        /\ equal(recs[1].p, last.rv)
        /\ last.out = recs[1].maxDataLen
        /\ last.n = pointSize(Len(recs[1].p.Pos), recs[1].maxDataLen)

WrongVersion(buf) == buf.len >= headerLen /\ buf.arr[1] # 0

\* C8 (version guard): on a buffer of at least 13 bytes whose first byte is
\* not 0, parsePointHeader and parsePoint return the invalid-version error
\* and no point; parsePointFromReader returns it having read the 13 header
\* bytes only.
C8_VersionGuard ==
    /\ (last.op \in { "parsePointHeader", "parsePoint" }
           /\ WrongVersion(last.buf)) =>
          /\ ~last.panic
          /\ last.err = "InvalidVersion"
          /\ last.rv = ZeroPoint
          /\ last.remaining = << >>
    /\ (last.op = "parsePointFromReader" /\ WrongVersion(last.buf)) =>
          /\ ~last.panic
          /\ last.err = "InvalidVersion"
          /\ last.rv = ZeroPoint
          /\ last.n = headerLen

C8_Witness ==
    /\ last.op = "parsePointFromReader"
    /\ WrongVersion(last.buf)
    /\ last.buf.len > headerLen
    /\ last.buf.arr[headerLen + 1] # 0
    /\ last.err = "InvalidVersion"
    /\ last.n = headerLen

\* C9 (dimension mismatch): distanceSquared on two points of different
\* dimension signals the violation instead of returning a sum.
C9_DimensionMismatch ==
    (last.op = "distanceSquared" /\ Len(last.p.Pos) # Len(last.p2.Pos)) =>
        last.panic

\* the stream began with a version-0 header and held every byte asked for
CompleteRead ==
    /\ last.op = "parsePointFromReader"
    /\ last.buf.len >= headerLen
    /\ last.buf.arr[1] = 0
    /\ last.err \notin { "EOF", "ErrUnexpectedEOF" }

HeaderField(buf, k) ==
    LittleEndianUint32(SubSeq(buf.arr, 2 + k * uint32Size,
                              1 + (k + 1) * uint32Size))

\* C10 (implicit): when the stream supplies the body parsePointFromReader
\* asks for, parsePoint stays inside the buffer and returns a point with
\* dims coordinates and dataLen payload bytes, leaving no remainder.
C10_SizesAgree ==
    CompleteRead =>
        /\ ~last.panic
        /\ last.err = "nil"
        /\ Len(last.rv.Pos) = HeaderField(last.buf, 0)
        /\ Len(last.rv.Data) = HeaderField(last.buf, 1)
        /\ last.remaining = << >>

====
